---------------------------- MODULE Spec2Model ----------------------------
(***************************************************************************)
(* A model of generator.py (hugeml): the synthetic boolean dataset         *)
(* generator.  generate_dataset is modelled as a state machine over the    *)
(* process-wide numpy random stream; the labelling catalog and the         *)
(* flip/shuffle transform are operators computed the way the code          *)
(* computes them.                                                          *)
(*                                                                         *)
(* The random stream.  numpy's generator is deterministic: after           *)
(* np.random.seed(s), the outcome of the p-th sampling call is a fixed     *)
(* function of s, p and of the sampling calls made since the reseed.  The  *)
(* model keeps that function in the variable rng, keyed by                 *)
(* <<seed, position, kind, hi>>.  With gen = 0 nothing is assumed about    *)
(* its values: a value is chosen freely the first time a key is read and   *)
(* is remembered from then on.  With gen > 0 the generator is a concrete   *)
(* one, computed by arithmetic on the key.  Positions after a reseed are   *)
(* always reached by the same sequence of sampling calls for a given key,  *)
(* so the key determines the outcome in the real generator as well.        *)
(***************************************************************************)
EXTENDS Integers, Sequences, FiniteSets, TLC

VARIABLES
  gen,                    \* which generator the process runs on
  rng,                    \* the generator's outcome function, as far as revealed
  seed, pos,              \* np.random global state: last seed, sampling calls since
  pc,                     \* position of the caller / of generate_dataset
  label_generator_name, num_critical_features,
  num_useless_features, num_examples,          \* arguments of the running call
  labelling,              \* local: the looked-up rule, or "None"
  flip_critical_feature,  \* closure variable of all_features_generator
  shuffling_order,        \* closure variable of all_features_generator
  examples,               \* local: the list being built / returned
  example_index,          \* local: the loop variable
  ops,                    \* history: stream operations of the running call, in order
  hist,                   \* history: per appended example, what went into it
  ref,                    \* history: a completed earlier call kept for comparison
  interleaved,            \* history: a call with other arguments completed since ref
  lname, lx, lout         \* the labelling catalog exercised on its own

vars == <<gen, rng, seed, pos, pc, label_generator_name, num_critical_features,
          num_useless_features, num_examples, labelling, flip_critical_feature,
          shuffling_order, examples, example_index, ops, hist, ref, interleaved,
          lname, lx, lout>>

-----------------------------------------------------------------------------
(* Bounds of the model. *)

MaxCrit == 2
MaxUseless == 1
MaxWidth == 3
MaxExamples == 1
MaxSeqExamples == 2
MaxSeqRules == 2
NumGenerators == 6
MaxLongExamples == 9
MaxLen == 8

-----------------------------------------------------------------------------
(* Program constants. *)

SELFTEST_SEED == 7
SELFTEST_FIRST == 763082
SELFTEST_SECOND == 7799187
SQRT_CRITICAL_SEED_MODULUS == 65536
USELESS_SEED_FACTOR == 8
USELESS_SEED_MODULUS == 10619863
CHECKED_INDEX == 2
CHECKED_WIDTH == 11

CHECKED_FEATURES ==
  <<0, 0, 1, 0, 0, 1, 0, 0, 0, 0, 0, 0, 0, 1, 1, 1, 1, 0, 0, 0, 0, 1>>

(* The ten names gen_labelling_function knows, in the order of its branches. *)
RuleNames ==
  <<"xor", "majority", "parity_onemax", "parity_leadingones", "needle", "rote",
    "smooth4_parity", "smooth8_parity", "smooth4_parity_leadingones",
    "smooth8_parity_leadingones">>

Rules == {RuleNames[i] : i \in 1..Len(RuleNames)}

-----------------------------------------------------------------------------
(* Python / numpy helpers used by the labelling lambdas. *)

RECURSIVE sum(_)
sum(x) == IF x = <<>> THEN 0 ELSE Head(x) + sum(Tail(x))

RECURSIVE np_prod(_)
np_prod(x) == IF x = <<>> THEN 1 ELSE Head(x) * np_prod(Tail(x))

(* np.cumprod: element i is the product of the first i elements. *)
RECURSIVE CumProdFrom(_, _)
CumProdFrom(x, acc) ==
  IF x = <<>> THEN <<>>
  ELSE <<acc * Head(x)>> \o CumProdFrom(Tail(x), acc * Head(x))

np_cumprod(x) == CumProdFrom(x, 1)

(* int(hashlib.sha224(str([x])).hexdigest(), 16) % 2, tabulated for every  *)
(* bit list x of length 0..4; str([x]) is "[[0, 1]]" for x = [0, 1].       *)
RoteTable ==
  (<<>> :> 0) @@
  (<<0>> :> 1) @@
  (<<1>> :> 0) @@
  (<<0, 0>> :> 0) @@
  (<<0, 1>> :> 1) @@
  (<<1, 0>> :> 1) @@
  (<<1, 1>> :> 0) @@
  (<<0, 0, 0>> :> 0) @@
  (<<0, 0, 1>> :> 1) @@
  (<<0, 1, 0>> :> 1) @@
  (<<0, 1, 1>> :> 0) @@
  (<<1, 0, 0>> :> 0) @@
  (<<1, 0, 1>> :> 0) @@
  (<<1, 1, 0>> :> 0) @@
  (<<1, 1, 1>> :> 1) @@
  (<<0, 0, 0, 0>> :> 1) @@
  (<<0, 0, 0, 1>> :> 0) @@
  (<<0, 0, 1, 0>> :> 0) @@
  (<<0, 0, 1, 1>> :> 0) @@
  (<<0, 1, 0, 0>> :> 1) @@
  (<<0, 1, 0, 1>> :> 1) @@
  (<<0, 1, 1, 0>> :> 0) @@
  (<<0, 1, 1, 1>> :> 0) @@
  (<<1, 0, 0, 0>> :> 1) @@
  (<<1, 0, 0, 1>> :> 1) @@
  (<<1, 0, 1, 0>> :> 1) @@
  (<<1, 0, 1, 1>> :> 0) @@
  (<<1, 1, 0, 0>> :> 1) @@
  (<<1, 1, 0, 1>> :> 0) @@
  (<<1, 1, 1, 0>> :> 1) @@
  (<<1, 1, 1, 1>> :> 1)

-----------------------------------------------------------------------------
(* gen_labelling_function.  The returned lambda is represented by the name *)
(* of its branch; a name no branch matches falls off the end of the        *)
(* function, which returns None.                                           *)

gen_labelling_function(name) == IF name \in Rules THEN name ELSE "None"

(* A variant of the catalog with the majority threshold taken strictly. *)
labelling_call_strict(f, x) ==
  CASE f = "xor" -> sum(x) % 2
    [] f = "majority" -> IF sum(x) > Len(x) \div 2 THEN 1 ELSE 0
    [] f = "parity_onemax" -> sum(x) % 2
    [] f = "parity_leadingones" -> sum(np_cumprod(x)) % 2
    [] f = "needle" -> np_prod(x)
    [] f = "rote" -> RoteTable[x]
    [] f = "smooth4_parity" -> (sum(x) \div 4) % 2
    [] f = "smooth8_parity" -> (sum(x) \div 8) % 2
    [] f = "smooth4_parity_leadingones" -> (sum(np_cumprod(x)) \div 4) % 2
    [] f = "smooth8_parity_leadingones" -> (sum(np_cumprod(x)) \div 8) % 2

(* Calling the lambda that gen_labelling_function returned for name f. *)
labelling_call(f, x) ==
  CASE f = "xor" -> sum(x) % 2
    [] f = "majority" -> IF sum(x) >= Len(x) \div 2 THEN 1 ELSE 0
    [] f = "parity_onemax" -> sum(x) % 2
    [] f = "parity_leadingones" -> sum(np_cumprod(x)) % 2
    [] f = "needle" -> np_prod(x)
    [] f = "rote" -> RoteTable[x]
    [] f = "smooth4_parity" -> (sum(x) \div 4) % 2
    [] f = "smooth8_parity" -> (sum(x) \div 8) % 2
    [] f = "smooth4_parity_leadingones" -> (sum(np_cumprod(x)) \div 4) % 2
    [] f = "smooth8_parity_leadingones" -> (sum(np_cumprod(x)) \div 8) % 2

-----------------------------------------------------------------------------
(* The random stream. *)

(* The state numpy starts in: seeded from the operating system when the    *)
(* module is imported, i.e. with a seed the program itself never uses.     *)
OsEntropySeed == 0 - 1

(* The values int(np.random.uniform() * 10000000) can take; 0 stands for   *)
(* every value other than the two the self-test expects.                   *)
UniformOutcomes == {0, SELFTEST_FIRST, SELFTEST_SECOND}

(* The outcomes of one sampling call: kind "uniform" is np.random.uniform  *)
(* (scaled and truncated), kind "randint" is a draw from {0, 1}            *)
(* (np.random.choice([0, 1]) and an element of np.random.randint(2, ..)),  *)
(* kind "shuffle" is the index in 0..hi that np.random.shuffle draws.      *)
Outcomes(key) == IF key[3] = "uniform" THEN UniformOutcomes ELSE 0..key[4]

(* The concrete generators: outcome of the sampling call at a key, by     *)
(* arithmetic on the key.  All of them pass the self-test after seed(7).  *)
Mix(g, s, p) ==
  ((s + 1) * (p + g + 2) * 7 + (s + g) * (p + 3) * 5 + g * 11) \div 3

GenValue(g, key) ==
  IF key[3] = "uniform"
  THEN (IF key[2] = 0 THEN SELFTEST_FIRST ELSE SELFTEST_SECOND)
  ELSE Mix(g, key[1], key[2]) % (key[4] + 1)

(* Every way of fixing the generator's outcomes at the keys not yet read; *)
(* a concrete generator leaves nothing to fix.                            *)
RECURSIVE Reveal(_, _)
Reveal(f, keys) ==
  IF gen # 0 \/ keys \subseteq DOMAIN f THEN {f}
  ELSE LET k == CHOOSE k \in keys \ DOMAIN f : TRUE
       IN UNION {Reveal(f @@ (k :> v), keys) : v \in Outcomes(k)}

(* The outcome of the sampling call at a key. *)
Outcome(f, key) == IF gen = 0 THEN f[key] ELSE GenValue(gen, key)

(* np.random.seed(s): the stream restarts at the beginning of sequence s. *)
np_random_seed(s) == [seed |-> s, pos |-> 0]

Keys(st, n, kind, hi) == {<<st.seed, st.pos + k, kind, hi>> : k \in 0..(n - 1)}

(* n consecutive sampling calls of one kind from stream state st. *)
Drawn(f, st, n, kind, hi) ==
  [k \in 1..n |-> Outcome(f, <<st.seed, st.pos + (k - 1), kind, hi>>)]

Advance(st, n) == [st EXCEPT !.pos = @ + n]

Repeat(e, n) == [k \in 1..n |-> e]

-----------------------------------------------------------------------------
(* gen_critical_feature_values. *)

gen_critical_feature_values(f, st, n) == Drawn(f, st, n, "randint", 1)

-----------------------------------------------------------------------------
(* gen_all_features_generator and the closure it returns.  Sequences are   *)
(* 1-based; the indices stored in shuffling_order are the code's 0-based   *)
(* ones.                                                                   *)

np_arange(n) == [k \in 1..n |-> k - 1]

(* x[i], x[j] = x[j], x[i] with 0-based i, j. *)
Swap(x, i, j) == [x EXCEPT ![i + 1] = x[j + 1], ![j + 1] = x[i + 1]]

(* np.random.shuffle draws, for i = n-1 down to 1, an index j in 0..i. *)
ShuffleKeys(st, n) ==
  {<<st.seed, st.pos + (n - 1 - i), "shuffle", i>> : i \in 1..(n - 1)}

ShuffleOps(n) == [k \in 1..(IF n > 0 THEN n - 1 ELSE 0) |-> <<"shuffle", n - k>>]

RECURSIVE ShuffleFrom(_, _, _, _)
ShuffleFrom(x, i, f, st) ==
  IF i < 1 THEN x
  ELSE LET j == Outcome(f, <<st.seed, st.pos + (Len(x) - 1 - i), "shuffle", i>>)
       IN ShuffleFrom(Swap(x, i, j), i - 1, f, st)

np_random_shuffle(x, f, st) == ShuffleFrom(x, Len(x) - 1, f, st)

(* [(value + sym) % 2 for (value, sym) in zip(all_features, flip)] *)
Flipped(all_features, flip) ==
  [k \in 1..(IF Len(all_features) < Len(flip) THEN Len(all_features) ELSE Len(flip))
     |-> (all_features[k] + flip[k]) % 2]

(* The other convention: element i is sent to place order[i]. *)
ShuffledInto(all_features, order) ==
  [k \in 1..Len(order) |->
     all_features[(CHOOSE m \in 1..Len(order) : order[m] = k - 1)]]

(* [all_features[idx] for idx in shuffling_order] *)
Shuffled(all_features, order) == [k \in 1..Len(order) |-> all_features[order[k] + 1]]

all_features_generator(critical, useless, flip, order) ==
  Shuffled(Flipped(critical \o useless, flip), order)

Reversed(x) == [k \in 1..Len(x) |-> x[Len(x) + 1 - k]]

(* A closure that reorders its column order in place on every call. *)
ClosureAfterCall_reordering(flip, order) == [flip |-> flip, order |-> Reversed(order)]

(* The closure's variables after a call of all_features_generator: the     *)
(* call reads flip_critical_feature and shuffling_order and assigns        *)
(* neither.                                                                *)
ClosureAfterCall(flip, order) == [flip |-> flip, order |-> order]

-----------------------------------------------------------------------------
(* generate_dataset. *)

UNKNOWN_NAME == "bogus"

Names == Rules \cup {UNKNOWN_NAME}

ArgSet(names, maxn) ==
  {a \in [name : names, nc : 0..MaxCrit, nu : 0..MaxUseless, n : 0..maxn] :
     a.nc + a.nu <= MaxWidth}

Args == ArgSet(Names, MaxExamples)

(* The stream as the call leaves it untouched on entry. *)
EntryStream_unseeded == [seed |-> seed, pos |-> pos]

(* np.random.seed(7), the first statement of generate_dataset. *)
EntryStream == np_random_seed(SELFTEST_SEED)

(* i % (2**32), computed on the two 16-bit halves of i: 2**32 itself is *)
(* 65536 * 65536 and exceeds the integers of the model checker.        *)
mod_2_32(i) ==
  ((i \div SQRT_CRITICAL_SEED_MODULUS) % SQRT_CRITICAL_SEED_MODULUS)
      * SQRT_CRITICAL_SEED_MODULUS
    + (i % SQRT_CRITICAL_SEED_MODULUS)

(* The seed of the critical values of example i, off by one. *)
CriticalSeed_next(i) == mod_2_32(i + 1)

CriticalSeed(i) == mod_2_32(i)

(* The critical values drawn without a reseed, from wherever the stream is. *)
CriticalStream_unseeded(i) == [seed |-> seed, pos |-> pos]

(* np.random.seed(example_index % (2**32)) *)
CriticalStream(i) == np_random_seed(CriticalSeed(i))

(* The seed of the useless values of example i, shifted by one. *)
UselessSeed_shifted(i) == (USELESS_SEED_FACTOR * i + 1) % USELESS_SEED_MODULUS

UselessSeed(i) == (USELESS_SEED_FACTOR * i) % USELESS_SEED_MODULUS

(* np.random.seed((8*example_index) % 10619863) *)
UselessStream(i) == np_random_seed(UselessSeed(i))

(* xrange(n) stopping one short. *)
xrange_has_next_short(i, n) == i + 1 < n

(* for example_index in xrange(num_examples): whether index i is produced. *)
xrange_has_next(i, n) == i < n

(* The condition of the literal check on one example. *)
CheckedExample(name, i, nc, nu) ==
  name = "xor" /\ i = CHECKED_INDEX /\ nu = CHECKED_WIDTH /\ nc = CHECKED_WIDTH

Locals == <<labelling, flip_critical_feature, shuffling_order, examples,
            example_index, hist>>

Arguments == <<label_generator_name, num_critical_features,
               num_useless_features, num_examples>>

History == <<ref, interleaved>>

Catalog == <<lname, lx, lout>>

(* The call ends by raising exc with the stream at st. *)
Raise(exc, f, st, log) ==
  /\ pc' = exc
  /\ rng' = f
  /\ seed' = st.seed
  /\ pos' = st.pos
  /\ ops' = log

(* Lines 102-121: the call binds its arguments, reseeds and runs the *)
(* self-test on two uniform draws.                                   *)
Call(a) ==
  /\ pc = "idle"
  /\ label_generator_name' = a.name
  /\ num_critical_features' = a.nc
  /\ num_useless_features' = a.nu
  /\ num_examples' = a.n
  /\ LET s0 == EntryStream
         s1 == Advance(s0, 1)
         s2 == Advance(s0, 2)
         log0 == <<<<"seed", s0.seed>>>>
         log1 == log0 \o <<<<"uniform", 0>>>>
         log2 == log1 \o <<<<"uniform", 0>>>>
     IN \E f1 \in Reveal(rng, Keys(s0, 1, "uniform", 0)) :
          IF Drawn(f1, s0, 1, "uniform", 0)[1] # SELFTEST_FIRST
          THEN Raise("AssertionError", f1, s1, log1)
          ELSE \E f2 \in Reveal(f1, Keys(s1, 1, "uniform", 0)) :
                 IF Drawn(f2, s1, 1, "uniform", 0)[1] # SELFTEST_SECOND
                 THEN Raise("AssertionError", f2, s2, log2)
                 ELSE Raise("build", f2, s2, log2)
  /\ UNCHANGED <<gen, Locals, History, Catalog>>

(* Lines 123-126: the rule is looked up, the flip mask and the column *)
(* order are drawn, the list starts empty.                            *)
Build ==
  /\ pc = "build"
  /\ labelling' = gen_labelling_function(label_generator_name)
  /\ LET w == num_critical_features + num_useless_features
         s0 == [seed |-> seed, pos |-> pos]
         s1 == Advance(s0, w)
         s2 == Advance(s1, IF w > 0 THEN w - 1 ELSE 0)
     IN \E f1 \in Reveal(rng, Keys(s0, w, "randint", 1)) :
        \E f2 \in Reveal(f1, ShuffleKeys(s1, w)) :
          /\ flip_critical_feature' = Drawn(f1, s0, w, "randint", 1)
          /\ shuffling_order' = np_random_shuffle(np_arange(w), f2, s1)
          /\ Raise("loop", f2, s2,
                   ops \o <<<<"lookup", 0>>>> \o Repeat(<<"randint", 1>>, w)
                       \o ShuffleOps(w))
  /\ examples' = <<>>
  /\ example_index' = 0
  /\ hist' = <<>>
  /\ UNCHANGED <<gen, Arguments, History, Catalog>>

(* Lines 127-141: one iteration of the loop. *)
Iterate ==
  /\ pc = "loop"
  /\ xrange_has_next(example_index, num_examples)
  /\ LET i == example_index
         nc == num_critical_features
         nu == num_useless_features
         sA == CriticalStream(i)
         sA2 == Advance(sA, nc)
         logA == ops \o <<<<"seed", sA.seed>>>> \o Repeat(<<"randint", 1>>, nc)
     IN \E fA \in Reveal(rng, Keys(sA, nc, "randint", 1)) :
        LET critical_feature_values == gen_critical_feature_values(fA, sA, nc)
        IN IF labelling = "None"
           THEN /\ Raise("TypeError", fA, sA2, logA)
                /\ UNCHANGED Locals
           ELSE
             LET label_value == labelling_call(labelling, critical_feature_values)
                 sB == UselessStream(i)
                 sB2 == Advance(sB, nu)
                 logB == logA \o <<<<"label", 0>>, <<"seed", sB.seed>>>>
                              \o Repeat(<<"randint", 1>>, nu) \o <<<<"append", 0>>>>
             IN \E fB \in Reveal(fA, Keys(sB, nu, "randint", 1)) :
                LET useless_feature_values == Drawn(fB, sB, nu, "randint", 1)
                    all_feature_values ==
                      all_features_generator(critical_feature_values,
                                             useless_feature_values,
                                             flip_critical_feature, shuffling_order)
                    closure == ClosureAfterCall(flip_critical_feature, shuffling_order)
                    passed ==
                      CheckedExample(label_generator_name, i, nc, nu)
                        => (all_feature_values = CHECKED_FEATURES /\ label_value = 1)
                IN /\ examples' = Append(examples, <<all_feature_values, label_value>>)
                   /\ hist' = Append(hist,
                        [index |-> i,
                         critical |-> critical_feature_values,
                         useless |-> useless_feature_values,
                         flip |-> flip_critical_feature,
                         order |-> shuffling_order])
                   /\ flip_critical_feature' = closure.flip
                   /\ shuffling_order' = closure.order
                   /\ example_index' = i + 1
                   /\ Raise(IF passed THEN "loop" ELSE "AssertionError", fB, sB2, logB)
                   /\ UNCHANGED labelling
  /\ UNCHANGED <<gen, Arguments, History, Catalog>>

(* Line 143: the loop is exhausted and the list is returned. *)
Return ==
  /\ pc = "loop"
  /\ ~xrange_has_next(example_index, num_examples)
  /\ pc' = "returned"
  /\ UNCHANGED <<gen, rng, seed, pos, ops, Arguments, Locals, History, Catalog>>

(* Lines 145 and 154-164: the caller takes the returned list and goes on  *)
(* to its next call; the call's locals are gone, the stream stays as the  *)
(* call left it.  The history may keep the completed call as reference.   *)
Reenter ==
  /\ pc = "returned"
  /\ pc' = "idle"
  /\ LET done == [name |-> label_generator_name, nc |-> num_critical_features,
                  nu |-> num_useless_features, n |-> num_examples,
                  examples |-> examples, hist |-> hist]
         same == /\ ref # <<>>
                 /\ ref[1].name = done.name /\ ref[1].nc = done.nc
                 /\ ref[1].nu = done.nu /\ ref[1].n = done.n
     IN /\ ref' \in (IF ref = <<>> THEN {<<>>, <<done>>} ELSE {ref})
        /\ interleaved' = (interleaved \/ (ref # <<>> /\ ~same))
  /\ label_generator_name' = ""
  /\ num_critical_features' = 0
  /\ num_useless_features' = 0
  /\ num_examples' = 0
  /\ labelling' = "None"
  /\ flip_critical_feature' = <<>>
  /\ shuffling_order' = <<>>
  /\ examples' = <<>>
  /\ example_index' = 0
  /\ hist' = <<>>
  /\ ops' = <<>>
  /\ UNCHANGED <<gen, rng, seed, pos, Catalog>>

-----------------------------------------------------------------------------
(* Specifications. *)

InitState(g) ==
  /\ gen = g
  /\ rng = <<>>
  /\ seed = OsEntropySeed
  /\ pos = 0
  /\ pc = "idle"
  /\ label_generator_name = ""
  /\ num_critical_features = 0
  /\ num_useless_features = 0
  /\ num_examples = 0
  /\ labelling = "None"
  /\ flip_critical_feature = <<>>
  /\ shuffling_order = <<>>
  /\ examples = <<>>
  /\ example_index = 0
  /\ ops = <<>>
  /\ hist = <<>>
  /\ ref = <<>>
  /\ interleaved = FALSE

NO_LABEL == 0 - 1

InitWith(g) ==
  /\ InitState(g)
  /\ lname = ""
  /\ lx = <<>>
  /\ lout = NO_LABEL

(* One call of generate_dataset with any arguments, on any generator. *)
Init == InitWith(0)

Next ==
  \/ \E a \in Args : Call(a)
  \/ Build
  \/ Iterate
  \/ Return

Spec == Init /\ [][Next]_vars

(* The same on each of the concrete generators. *)
InitGen == \E g \in 1..NumGenerators : InitWith(g)

(* Calls one after another in one process, as the sweep at the end of the *)
(* file makes them.                                                       *)
SeqNames == {RuleNames[i] : i \in 1..MaxSeqRules} \cup {UNKNOWN_NAME}

SeqArgs == ArgSet(SeqNames, MaxSeqExamples)

NextSeq ==
  \/ \E a \in SeqArgs : Call(a)
  \/ Build
  \/ Iterate
  \/ Return
  \/ Reenter

SpecSeq == InitGen /\ [][NextSeq]_vars

(* One call that generates many examples. *)
LongArgs == ArgSet(Names, MaxLongExamples)

NextLong ==
  \/ \E a \in LongArgs : Call(a)
  \/ Build
  \/ Iterate
  \/ Return

SpecLong == InitGen /\ [][NextLong]_vars

(* The labelling catalog on its own: every arithmetic rule applied to *)
(* every bit vector of length 1..MaxLen.                              *)
ArithmeticRules == Rules \ {"rote"}

BitVectors(n) == [1..n -> {0, 1}]

InitLabel ==
  /\ InitState(0)
  /\ lname \in ArithmeticRules
  /\ lx \in UNION {BitVectors(n) : n \in 1..MaxLen}
  /\ lout = NO_LABEL

ApplyLabel ==
  /\ lout = NO_LABEL
  /\ lout' = labelling_call(gen_labelling_function(lname), lx)
  /\ UNCHANGED <<gen, rng, seed, pos, pc, ops, Arguments, Locals, History, lname, lx>>

NextLabel == ApplyLabel

SpecLabel == InitLabel /\ [][NextLabel]_vars

-----------------------------------------------------------------------------
(* Properties. *)

Width == num_critical_features + num_useless_features

Running == pc \in {"loop", "returned"}

IsPrefix(a, b) == Len(a) <= Len(b) /\ \A k \in 1..Len(a) : a[k] = b[k]

Min(a, b) == IF a < b THEN a ELSE b

XOR(a, b) == IF a = b THEN 0 ELSE 1

ExpectedExampleOps(i, nc, nu) ==
  <<<<"seed", mod_2_32(i)>>>> \o [k \in 1..nc |-> <<"randint", 1>>]
    \o <<<<"label", 0>>, <<"seed", (8 * i) % 10619863>>>>
    \o [k \in 1..nu |-> <<"randint", 1>>] \o <<<<"append", 0>>>>

RECURSIVE ExpectedLoopOps(_, _, _)
ExpectedLoopOps(n, nc, nu) ==
  IF n = 0 THEN <<>>
  ELSE ExpectedLoopOps(n - 1, nc, nu) \o ExpectedExampleOps(n - 1, nc, nu)

ExpectedOps(nc, nu, n) ==
  <<<<"seed", 7>>, <<"uniform", 0>>, <<"uniform", 0>>, <<"lookup", 0>>>>
    \o [k \in 1..(nc + nu) |-> <<"randint", 1>>]
    \o [k \in 1..(IF nc + nu > 0 THEN nc + nu - 1 ELSE 0) |-> <<"shuffle", nc + nu - k>>]
    \o ExpectedLoopOps(n, nc, nu)

(* The stream is where the logged operations put it: at the last logged *)
(* seed, as many sampling calls on as are logged after it.              *)
RECURSIVE StreamFollows(_, _, _)
StreamFollows(log, p, s) ==
  IF log = <<>> THEN seed = s /\ pos = p
  ELSE LET op == Head(log)
       IN IF op[1] = "seed" THEN StreamFollows(Tail(log), 0, op[2])
          ELSE IF op[1] \in {"uniform", "randint", "shuffle"}
          THEN StreamFollows(Tail(log), p + 1, s)
          ELSE StreamFollows(Tail(log), p, s)

(* C3: the operations on the stream happen in the order: reseed 7, two     *)
(* uniform draws, the rule lookup, the mask draws and the shuffle, then    *)
(* per example i in increasing order reseed i mod 2^32, num_critical       *)
(* draws, the label, reseed 8i mod 10619863, num_useless draws, the        *)
(* append; a run in progress (or one that raised) has made a prefix of     *)
(* that sequence and a completed run all of it, nothing else in between.   *)
C3_OperationOrder ==
  pc # "idle" =>
    LET expected == ExpectedOps(num_critical_features, num_useless_features,
                                num_examples)
    IN /\ IsPrefix(ops, expected)
       /\ pc = "returned" => ops = expected
       /\ StreamFollows(ops, 0, 0 - 1)

C3_Witness ==
  /\ pc = "returned"
  /\ num_examples = MaxLongExamples
  /\ num_critical_features = 2
  /\ num_useless_features = 1
  /\ Len(ops) = 4 + 2 * Width - 1 + MaxLongExamples * (Width + 4)
  /\ seed = 8 * (MaxLongExamples - 1)
  /\ pos = 1

(* The mask as it was drawn when the transform was built: the sampling *)
(* calls 2 .. Width+1 after the reseed with 7.                         *)
MaskAtConstruction == [k \in 1..Width |-> Outcome(rng, <<7, 1 + k, "randint", 1>>)]

(* C4: every example of a dataset is obfuscated with the same flip mask    *)
(* and column order, which are the ones drawn before the first example and *)
(* are still the transform's after every example, whatever the reseeds.    *)
C4_MaskAndOrderFixed ==
  Running =>
    /\ flip_critical_feature = MaskAtConstruction
    /\ \A k \in 1..Len(hist) :
         /\ hist[k].flip = flip_critical_feature
         /\ hist[k].order = shuffling_order

C4_Witness ==
  /\ pc = "returned"
  /\ Len(hist) = MaxLongExamples
  /\ Width = 3
  /\ hist[1].critical # hist[2].critical
  /\ shuffling_order[1] # 0
  /\ shuffling_order # Reversed(shuffling_order)
  /\ \E k \in 1..Width : flip_critical_feature[k] = 1

IsPermutation(p) == {p[k] : k \in 1..Len(p)} = 0..(Len(p) - 1)

(* C5: output[i] = raw[p[i]] XOR m[p[i]] at every position i, raw being    *)
(* the critical values followed by the useless values; p is a permutation, *)
(* so every critical value c[j] is output[p^-1(j)] XOR m[j].               *)
C5_FlipThenShuffle ==
  \A k \in 1..Len(examples) :
    LET raw == hist[k].critical \o hist[k].useless
        m == hist[k].flip
        p == hist[k].order
        output == examples[k][1]
        w == Len(raw)
    IN /\ Len(output) = w /\ Len(m) = w /\ Len(p) = w
       /\ IsPermutation(p)
       /\ \A i \in 0..(w - 1) :
            output[i + 1] = XOR(raw[p[i + 1] + 1], m[p[i + 1] + 1])
       /\ \A j \in 0..(Len(hist[k].critical) - 1) :
            \E i \in 0..(w - 1) :
              /\ p[i + 1] = j
              /\ hist[k].critical[j + 1] = XOR(output[i + 1], m[j + 1])

C5_Witness ==
  /\ Len(examples) >= 1
  /\ Len(shuffling_order) = 3
  /\ shuffling_order[shuffling_order[1] + 1] # 0
  /\ shuffling_order[1] # 0
  /\ flip_critical_feature = <<1, 0, 1>>
  /\ hist[1].critical = <<1, 0>>
  /\ hist[1].useless = <<1>>

Ones(x) == Cardinality({i \in DOMAIN x : x[i] = 1})

LeadingOnes(x) == Cardinality({i \in DOMAIN x : \A j \in 1..i : x[j] = 1})

Odd(n) == n % 2 = 1

ReferenceLabel(name, x) ==
  CASE name \in {"xor", "parity_onemax"} -> IF Odd(Ones(x)) THEN 1 ELSE 0
    [] name = "majority" -> IF Len(x) <= 2 * Ones(x) + 1 THEN 1 ELSE 0
    [] name = "needle" -> IF \A i \in DOMAIN x : x[i] = 1 THEN 1 ELSE 0
    [] name = "parity_leadingones" -> IF Odd(LeadingOnes(x)) THEN 1 ELSE 0
    [] name = "smooth4_parity" -> IF Ones(x) % 8 >= 4 THEN 1 ELSE 0
    [] name = "smooth8_parity" -> IF Ones(x) % 16 >= 8 THEN 1 ELSE 0
    [] name = "smooth4_parity_leadingones" -> IF LeadingOnes(x) % 8 >= 4 THEN 1 ELSE 0
    [] name = "smooth8_parity_leadingones" -> IF LeadingOnes(x) % 16 >= 8 THEN 1 ELSE 0

(* C6: on every bit vector of length >= 1 each arithmetic rule returns a   *)
(* single bit, the catalog's value: the parity of the number of ones (xor, *)
(* parity_onemax), 1 iff the number of ones is at least floor(n/2)         *)
(* (majority), 1 iff all bits are 1 (needle), the parity of the number of  *)
(* leading ones (parity_leadingones), and the parity of the number of ones *)
(* or of leading ones integer-divided by 4 or 8 (the smooth rules).        *)
C6_RulesMatchCatalog ==
  lout # NO_LABEL => (lout \in {0, 1} /\ lout = ReferenceLabel(lname, lx))

C6_Witness ==
  /\ lname = "smooth8_parity_leadingones"
  /\ lout = 1
  /\ Len(lx) = 8

(* C7: a call with a name outside the catalog fails before the stream is   *)
(* reseeded or read (the stream is still as the call found it and no       *)
(* operation on it has happened), and no dataset, partial or empty, comes  *)
(* back.                                                                   *)
C7_UnknownRuleRejectedFirst ==
  (pc # "idle" /\ label_generator_name \notin Rules) =>
    /\ ops = <<>>
    /\ seed = OsEntropySeed /\ pos = 0
    /\ pc # "returned"

(* C8: a call with no critical feature and rule majority or needle fails:  *)
(* it builds no example and never returns.                                 *)
C8_NoCriticalFeatureRejected ==
  (pc # "idle" /\ num_critical_features = 0
     /\ label_generator_name \in {"majority", "needle"}) =>
    /\ examples = <<>>
    /\ pc # "returned"

SameArguments ==
  /\ ref # <<>>
  /\ ref[1].name = label_generator_name
  /\ ref[1].nc = num_critical_features
  /\ ref[1].nu = num_useless_features
  /\ ref[1].n = num_examples

(* C2: a call that returns gives the same examples as an earlier call with *)
(* the same arguments gave, whatever state the stream was left in by the   *)
(* calls made before it and in between.                                    *)
C2_Determinism ==
  (pc = "returned" /\ SameArguments) => examples = ref[1].examples

C2_Witness ==
  /\ pc = "returned"
  /\ SameArguments
  /\ interleaved
  /\ num_examples = MaxSeqExamples
  /\ num_critical_features = 2
  /\ num_useless_features = 1
  /\ examples = ref[1].examples
  /\ examples[1] # examples[2]

(* C9: for a fixed rule, number of critical features and example index,    *)
(* the critical values and the label are the same in every run, whatever   *)
(* the number of useless features and the number of examples are.          *)
C9_CriticalStreamDecoupled ==
  (Running /\ ref # <<>> /\ ref[1].name = label_generator_name
     /\ ref[1].nc = num_critical_features) =>
    \A k \in 1..Min(Len(hist), Len(ref[1].hist)) :
      /\ hist[k].critical = ref[1].hist[k].critical
      /\ examples[k][2] = ref[1].examples[k][2]

C9_Witness ==
  /\ pc = "returned"
  /\ ref # <<>>
  /\ ref[1].name = label_generator_name
  /\ ref[1].nc = num_critical_features
  /\ ref[1].nu # num_useless_features
  /\ ref[1].n # num_examples
  /\ num_critical_features = MaxCrit
  /\ Len(hist) >= 2
  /\ Len(ref[1].hist) >= 1
  /\ hist[1].critical # hist[2].critical
  /\ examples[1][1] # ref[1].examples[1][1]

(* C10: whenever j mod 2^32 = 8i mod 10619863, the raw useless values of   *)
(* example i and the critical values of example j are draws from the same  *)
(* stream and agree position by position; in particular the useless values *)
(* of example 0 repeat the critical values of example 0.                   *)
C10_SeedCollision ==
  \A a \in 1..Len(hist) : \A b \in 1..Len(hist) :
    (mod_2_32(hist[b].index) = (8 * hist[a].index) % 10619863) =>
      \A k \in 1..Min(Len(hist[a].useless), Len(hist[b].critical)) :
        hist[a].useless[k] = hist[b].critical[k]

C10_Witness ==
  /\ pc = "returned"
  /\ Len(hist) = 9
  /\ num_critical_features >= 1
  /\ num_useless_features >= 1
  /\ hist[2].useless[1] = hist[9].critical[1]
  /\ hist[1].useless[1] = hist[1].critical[1]
  /\ \E k \in 1..9 : hist[k].useless[1] # hist[k].critical[1]

=============================================================================
